---- MODULE Spec2Model ----
(***************************************************************************)
(* Model of fieldembed_core.pyx: the negative-sampling training kernel of  *)
(* FieldEmbed (bisect_left, the 48-bit congruential generator, the         *)
(* per-token update in its two variants and the train_batch drivers).      *)
(*                                                                         *)
(* Conventions.  Arrays keep the source's 0-based indices: an array of     *)
(* length n is a function with domain 0..n-1.  A 48-bit generator state is *)
(* four 12-bit limbs <<l0, l1, l2, l3>>, least significant first, because  *)
(* the model checker's integers are 32 bits wide.  REAL_t values are fixed *)
(* point numbers with ONEF units per 1.0.                                  *)
(***************************************************************************)
EXTENDS Integers, Sequences, FiniteSets, TLC

VARIABLES
    bis,    \* a call of bisect_left: table, key, lo, hi
    rng,    \* a generator: seed, state, last draw
    call,   \* a call of train_batch: its arguments and the model's settings
    c,      \* the call's Word2VecConfig: packed buffers, generator, loss
    drv,    \* the locals of train_batch and its position in the code
    mdl,    \* the model: embedding matrices and running_training_loss
    gh      \* history of the call, for stating properties

batchVars == <<call, c, drv, mdl, gh>>

vars == <<bis, rng, call, c, drv, mdl, gh>>

(***************************************************************************)
(* Bounds of the model.                                                    *)
(***************************************************************************)
MaxTableLen == 3
MaxCum == 3
MaxAdvances == 24

\* the capacity of the packed buffers (DEF MAX_SENTENCE_LEN = 10000, line
\* 27), scaled down
MAX_SENTENCE_LEN == 3

\* "cdef T v = e" followed by code that reads v: the body G applied to the
\* value of e, computed once
With(v, G(_)) == CHOOSE r \in { G(x) : x \in {v} } : TRUE

Max(p, q) == IF p >= q THEN p ELSE q
Min(p, q) == IF p <= q THEN p ELSE q

(***************************************************************************)
(* bisect_left (lines 72-80).                                              *)
(***************************************************************************)
\* a faulty variant of line 76: > in place of >=
GoLeftMutant(a, mid, x) == a[mid] > x

\* line 76: if a[mid] >= x
GoLeft(a, mid, x) == a[mid] >= x

\* line 75: mid = (lo + hi) >> 1
Mid(lo, hi) == (lo + hi) \div 2

RECURSIVE bisect_left(_, _, _, _)
bisect_left(a, x, lo, hi) ==
    IF hi > lo
    THEN IF GoLeft(a, Mid(lo, hi), x)
         THEN bisect_left(a, x, lo, Mid(lo, hi))
         ELSE bisect_left(a, x, Mid(lo, hi) + 1, hi)
    ELSE lo

IsNonDecreasing(a, n) == \A p \in 0..(n - 2) : a[p] <= a[p + 1]

\* the cumulative tables handed to bisect_left: non-decreasing, any length
CumTables ==
    UNION { { a \in [0..(n - 1) -> 0..MaxCum] : IsNonDecreasing(a, n) }
            : n \in 0..MaxTableLen }

TableLen(a) == Cardinality(DOMAIN a)

BisectIdle == bis = [a |-> <<>>, n |-> 0, x |-> 0, lo |-> 0, hi |-> 0,
                     pc |-> "idle", steps |-> 0]

\* a call bisect_left(a, x, 0, N)
BisectInit ==
    \E a \in CumTables, x \in 0..(MaxCum + 1) :
        bis = [a |-> a, n |-> TableLen(a), x |-> x, lo |-> 0,
               hi |-> TableLen(a), pc |-> "loop", steps |-> 0]

\* lines 74-77: one iteration taking the a[mid] >= x branch
BisectTakeLeft ==
    /\ bis.pc = "loop"
    /\ bis.hi > bis.lo
    /\ GoLeft(bis.a, Mid(bis.lo, bis.hi), bis.x)
    /\ bis' = [bis EXCEPT !.hi = Mid(bis.lo, bis.hi), !.steps = @ + 1]
    /\ UNCHANGED <<rng, batchVars>>

\* lines 74-79: one iteration taking the else branch
BisectTakeRight ==
    /\ bis.pc = "loop"
    /\ bis.hi > bis.lo
    /\ ~GoLeft(bis.a, Mid(bis.lo, bis.hi), bis.x)
    /\ bis' = [bis EXCEPT !.lo = Mid(bis.lo, bis.hi) + 1, !.steps = @ + 1]
    /\ UNCHANGED <<rng, batchVars>>

\* line 80: return lo
BisectReturn ==
    /\ bis.pc = "loop"
    /\ ~(bis.hi > bis.lo)
    /\ bis' = [bis EXCEPT !.pc = "done"]
    /\ UNCHANGED <<rng, batchVars>>

(***************************************************************************)
(* The generator (lines 82-85 and 264-265).                                *)
(***************************************************************************)
Limb == 2 ^ 12

\* 25214903917 = 0x5DEECE66D in 12-bit limbs
Multiplier == <<1645, 3790, 1502, 0>>

\* the increment of lines 84 and 265
Increment == 11

\* a faulty variant of line 84: the top limb is not cut to 48 bits
LcgNoMask(s) ==
    LET p0 == s[1] * Multiplier[1] + Increment
        p1 == s[1] * Multiplier[2] + s[2] * Multiplier[1] + (p0 \div Limb)
        p2 == s[1] * Multiplier[3] + s[2] * Multiplier[2]
              + s[3] * Multiplier[1] + (p1 \div Limb)
        p3 == s[1] * Multiplier[4] + s[2] * Multiplier[3]
              + s[3] * Multiplier[2] + s[4] * Multiplier[1] + (p2 \div Limb)
    IN  <<p0 % Limb, p1 % Limb, p2 % Limb, p3>>

\* (state * 25214903917 + 11) & 281474976710655, limb by limb
Lcg(s) ==
    LET p0 == s[1] * Multiplier[1] + Increment
        p1 == s[1] * Multiplier[2] + s[2] * Multiplier[1] + (p0 \div Limb)
        p2 == s[1] * Multiplier[3] + s[2] * Multiplier[2]
              + s[3] * Multiplier[1] + (p1 \div Limb)
        p3 == s[1] * Multiplier[4] + s[2] * Multiplier[3]
              + s[3] * Multiplier[2] + s[4] * Multiplier[1] + (p2 \div Limb)
    IN  <<p0 % Limb, p1 % Limb, p2 % Limb, p3 % Limb>>

\* state >> 16 as <<high 16 bits, low 16 bits>> of the 32-bit draw
Shift16(s) == <<s[4] * 16 + (s[3] \div 256), (s[3] % 256) * 256 + (s[2] \div 16)>>

\* a faulty variant of line 264: the draw reduced modulo cum_table[N-1] + 2
Shift16ModWide(s, modulus) ==
    (((Shift16(s)[1] % (modulus + 2)) * ((2 ^ 16) % (modulus + 2)))
        + Shift16(s)[2]) % (modulus + 2)

\* (state >> 16) % modulus for 0 < modulus < 2^15
Shift16Mod(s, modulus) ==
    (((Shift16(s)[1] % modulus) * ((2 ^ 16) % modulus)) + Shift16(s)[2]) % modulus

\* random_int32 (lines 82-85): [draw, next_random]
random_int32(s) == [draw |-> Shift16(s), next |-> Lcg(s)]

\* the inline advance of the per-token update (line 265)
InlineAdvance(s) == Lcg(s)

\* seeds: init_w2v_config sets next_random = 2^24 * a + b with a, b < 2^24
Seeds == { <<0, 0, 0, 0>>, <<1, 0, 0, 0>>, <<4095, 4095, 4095, 4095>>,
           <<1645, 3790, 1502, 0>>, <<7, 0, 2048, 9>>, <<0, 0, 0, 4095>> }

RngIdle == rng = [seed |-> <<0, 0, 0, 0>>, state |-> <<0, 0, 0, 0>>, n |-> 0,
                  draw |-> <<0, 0>>, before |-> <<0, 0, 0, 0>>, pc |-> "idle"]

RngInit ==
    \E s \in Seeds :
        rng = [seed |-> s, state |-> s, n |-> 0, draw |-> <<0, 0>>,
               before |-> s, pc |-> "run"]

\* a call of random_int32(&next_random)
RandomInt32Call ==
    /\ rng.pc = "run"
    /\ rng.n < MaxAdvances
    /\ rng' = [rng EXCEPT !.state = random_int32(rng.state).next,
                          !.draw = random_int32(rng.state).draw,
                          !.before = rng.state,
                          !.n = @ + 1]
    /\ UNCHANGED <<bis, batchVars>>

\* lines 264-265 of the per-token update: draw, then advance
InlineDraw ==
    /\ rng.pc = "run"
    /\ rng.n < MaxAdvances
    /\ rng' = [rng EXCEPT !.state = InlineAdvance(rng.state),
                          !.draw = Shift16(rng.state),
                          !.before = rng.state,
                          !.n = @ + 1]
    /\ UNCHANGED <<bis, batchVars>>

(***************************************************************************)
(* The negative draw of the per-token update (lines 264-265, 654-655) on   *)
(* any cumulative table: bisect_left on (next_random >> 16) %              *)
(* cum_table[N-1], then the advance of the generator.                      *)
(***************************************************************************)
\* the tables a model can hold: at least one entry, positive total
DrawTables == { a \in CumTables : TableLen(a) >= 1 /\ a[TableLen(a) - 1] > 0 }

DrawInit ==
    /\ RngInit
    /\ \E a \in DrawTables :
          bis = [a |-> a, n |-> TableLen(a), x |-> 0, lo |-> 0,
                 hi |-> TableLen(a), pc |-> "table", steps |-> 0]

\* line 264: the arguments of bisect_left(cum_table, ..., 0, cum_table_len)
DrawBegin ==
    /\ bis.pc = "table"
    /\ rng.pc = "run"
    /\ rng.n < MaxAdvances
    /\ bis' = [bis EXCEPT !.x = Shift16Mod(rng.state, bis.a[bis.n - 1]),
                          !.lo = 0, !.hi = bis.n, !.pc = "loop", !.steps = 0]
    /\ UNCHANGED <<rng, batchVars>>

\* line 265: the generator is advanced once the index is drawn
DrawAdvance ==
    /\ bis.pc = "done"
    /\ rng' = [rng EXCEPT !.state = InlineAdvance(rng.state),
                          !.draw = Shift16(rng.state),
                          !.before = rng.state,
                          !.n = @ + 1]
    /\ bis' = [bis EXCEPT !.pc = "table"]
    /\ UNCHANGED batchVars

(***************************************************************************)
(* REAL_t arithmetic and the sigmoid tables (lines 36-43, 904-907).        *)
(***************************************************************************)
\* ONEF = <REAL_t>1.0 (line 43): the number of fixed-point units per 1.0
ONEF == 16

MAX_EXP == 6

EXP_TABLE_SIZE == 1000

\* a REAL_t product, rounded toward zero
Mul(p, q) == IF p * q >= 0 THEN (p * q) \div ONEF ELSE -((-(p * q)) \div ONEF)

\* the number of entries of a strictly increasing sequence that are <= idx
CountUpTo(breaks, idx) == Cardinality({ b \in DOMAIN breaks : breaks[b] <= idx })

\* the table indices at which round(ONEF * sigmoid) steps up by one unit
ExpBreaks ==
    <<214, 311, 360, 394, 422, 447, 469, 490, 511, 532, 554, 579, 607, 641,
      690, 787>>

\* the table indices at which round(ONEF * log(sigmoid)) steps up by one unit
LogBreaks ==
    <<3, 9, 14, 19, 24, 29, 35, 40, 45, 50, 56, 61, 66, 71, 77, 82, 87, 92,
      98, 103, 108, 113, 119, 124, 129, 134, 140, 145, 150, 155, 161, 166,
      171, 177, 182, 187, 193, 198, 203, 209, 214, 219, 225, 230, 236, 241,
      247, 252, 257, 263, 269, 274, 280, 285, 291, 296, 302, 308, 314, 319,
      325, 331, 337, 343, 349, 355, 361, 367, 374, 380, 387, 393, 400, 407,
      414, 421, 428, 436, 443, 451, 460, 468, 477, 486, 496, 507, 518, 530,
      543, 558, 575, 594, 618, 649, 694, 788>>

\* EXP_TABLE[i] = sigmoid((i / EXP_TABLE_SIZE * 2 - 1) * MAX_EXP) (lines 905-906)
EXP_TABLE(idx) == CountUpTo(ExpBreaks, idx)

\* LOG_TABLE[i] = log(EXP_TABLE[i]) (line 907)
LOG_TABLE(idx) == CountUpTo(LogBreaks, idx) - Len(LogBreaks)

\* f_dot <= -MAX_EXP or f_dot >= MAX_EXP (lines 280, 285, 299, 304, 670, 688)
Saturated(f) == f <= -(MAX_EXP * ONEF) \/ f >= MAX_EXP * ONEF

\* <int>((f_dot + MAX_EXP) * (EXP_TABLE_SIZE / MAX_EXP / 2)) (line 287)
TableIndex(f) ==
    ((f + MAX_EXP * ONEF) * ((EXP_TABLE_SIZE \div MAX_EXP) \div 2)) \div ONEF

RECURSIVE SumSet(_, _)
\* the sum of f[x] over the x of a finite set
SumSet(f, S) ==
    IF S = {}
    THEN 0
    ELSE CHOOSE r \in { f[x] + SumSet(f, S \ {x}) : x \in { CHOOSE y \in S : TRUE } } : TRUE

\* our_dot (lines 56-63): dot(X[xoff .. xoff+n), Y[yoff .. yoff+n))
our_dot(n, X, xoff, Y, yoff) ==
    SumSet([e \in 0..(n - 1) |-> Mul(X[xoff + e], Y[yoff + e])], 0..(n - 1))

\* our_saxpy (lines 66-69): Y[yoff + e] = alpha * X[xoff + e] + Y[yoff + e]
our_saxpy(n, alpha, X, xoff, Y, yoff) ==
    [p \in DOMAIN Y |->
        IF p \in yoff..(yoff + n - 1)
        THEN Mul(alpha, X[xoff + (p - yoff)]) + Y[p]
        ELSE Y[p]]

\* sscal (line 34): X[xoff + e] = alpha * X[xoff + e]
sscal(n, alpha, X, xoff) ==
    [p \in DOMAIN X |->
        IF p \in xoff..(xoff + n - 1) THEN Mul(alpha, X[p]) ELSE X[p]]

\* memset(buf, 0, n * sizeof(REAL_t)) (lines 214, 256)
ZeroBuffer(n) == [p \in 0..(n - 1) |-> 0]

(***************************************************************************)
(* The read-only tables of the model object: a vocabulary of VocabSize     *)
(* tokens (0..3 special) and three sub-units.                              *)
(***************************************************************************)
VocabSize == 7

\* model.vocabulary.cum_table (line 137)
cum_table == [t \in 0..(VocabSize - 1) |-> <<0, 0, 0, 0, 2, 3, 5>>[t + 1]]

cum_table_len == VocabSize

\* model.field_sub[0][0][1] (line 120): sub-unit indices, token after token
LookUp == [n \in 0..3 |-> <<0, 1, 1, 2>>[n + 1]]

\* model.field_sub[0][0][2] (line 121): token 4 owns units 0, 1; token 5
\* owns none; token 6 owns units 1, 2
EndIdx == [t \in 0..(VocabSize - 1) |-> <<0, 0, 0, 0, 2, 2, 4>>[t + 1]]

\* model.field_sub[0][0][3] (line 122): 1 / (number of sub-units); the
\* entry of a token without sub-units is arbitrary
LengInv ==
    [t \in 0..(VocabSize - 1) |->
        <<0, 0, 0, 0, ONEF \div 2, ONEF, ONEF \div 2>>[t + 1]]

\* model.trainables.vectors_lockf (line 131)
word_locks ==
    [t \in 0..(VocabSize - 1) |-> IF t = 6 THEN ONEF \div 2 ELSE ONEF]

\* vlookup[t].sample_int (line 388) as <<high 16 bits, low 16 bits>>;
\* 2^32 keeps the token always
sample_int ==
    [t \in 0..(VocabSize - 1) |->
        IF t = 5 THEN <<2 ^ 15, 0>>
        ELSE IF t = 6 THEN <<2 ^ 14, 0>>
        ELSE <<2 ^ 16, 0>>]

\* a < b for 32-bit values given as <<high, low>>
Less32(p, q) == p[1] < q[1] \/ (p[1] = q[1] /\ p[2] < q[2])

(***************************************************************************)
(* The per-token update (lines 146-362 and 519-756).  cfg is the           *)
(* Word2VecConfig of the call, indexes the packed token buffer, mats the   *)
(* embedding matrices [sub, sub1, head, neg] as flat row-major arrays.     *)
(***************************************************************************)
\* sub-units of the model's sub field
SubUnits == 3

\* proj_num = use_head + use_sub (lines 192, 553)
ProjNum(cfg) == cfg.use_head + cfg.use_sub

\* a faulty variant: the head field always in slot 0
HeadFldAlwaysZero(cfg) == 0

\* the value of fld_idx in the "if use_head" blocks: incremented once by
\* the "if use_sub" block before it (lines 242-243, 293-294, 353-354)
HeadFld(cfg) == IF cfg.use_sub # 0 THEN 1 ELSE 0

\* the matrix init_w2v_config binds to syn0_map[fld]: the first variant
\* (lines 116-127) binds sub field 0 and then the head field, the second
\* (lines 485-499) binds use_sub sub fields and then the head field
SlotHandle(cfg, fld) ==
    IF cfg.variant = "neat"
    THEN IF fld = 0 /\ cfg.use_sub # 0 THEN "sub" ELSE "head"
    ELSE IF fld >= cfg.use_sub THEN "head"
         ELSE IF fld = 0 THEN "sub" ELSE "sub1"

\* the value of fld_idx when the head field is scored: the first variant
\* increments it once (lines 272-294), the second once per sub field
\* (lines 664-685)
ScoreHeadFld(cfg) ==
    IF cfg.variant = "neat" THEN HeadFld(cfg) ELSE cfg.use_sub

\* the fields the kernel walks: the sub field at 0, the head field after it
ActiveFields(cfg) ==
    (IF cfg.use_sub # 0 THEN {0} ELSE {}) \cup
    (IF cfg.use_head # 0 THEN {HeadFld(cfg)} ELSE {})

\* a faulty variant: the loops without "if m == i: continue"
ContextWithTarget(i, j, k) == j..(k - 1)

\* the positions the loops "for m in range(j, k): if m == i: continue" visit
Context(i, j, k) == { m \in j..(k - 1) : m # i }

\* lines 204-211: count and inv_count
InvCount(i, j, k) ==
    LET count == Cardinality(Context(i, j, k)) * ONEF
    IN  IF count > ONEF \div 2 THEN (ONEF * ONEF) \div count ELSE ONEF

\* a faulty variant of lines 228, 347: every slice starts at the first
\* sub-unit
SliceStartZero(left_word, junk) == 0

\* gs = EndIdx_map[fld_idx][left_word - 1] (lines 228, 347); for left_word
\* = 0 the read is before the array and yields the arbitrary value junk
SliceStart(left_word, junk) ==
    IF left_word = 0 THEN junk ELSE EndIdx[left_word - 1]

\* the (m, n) pairs of the nested loops over context tokens and their
\* sub-units (lines 221-235, 339-351)
GrainPairs(indexes, ctx, junk) ==
    UNION { { <<m, n>> : n \in SliceStart(indexes[m], junk)..(EndIdx[indexes[m]] - 1) }
            : m \in ctx }

\* lines 219-238: the sub projection, into segment fld of neu1
AggregateSub(cfg, indexes, ctx, inv, mats, neu1, fld, junk) ==
    LET pairs == GrainPairs(indexes, ctx, junk)
        summed ==
            [p \in DOMAIN neu1 |->
                IF p \in (fld * cfg.size)..(fld * cfg.size + cfg.size - 1)
                THEN neu1[p] +
                     SumSet([q \in pairs |->
                                Mul(LengInv[indexes[q[1]]],
                                    mats.sub[LookUp[q[2]] * cfg.size + (p - fld * cfg.size)])],
                            pairs)
                ELSE neu1[p]]
    IN  sscal(cfg.size, inv, summed, fld * cfg.size)

\* lines 242-252: the head projection, into segment fld of neu1
AggregateHead(cfg, indexes, ctx, inv, mats, neu1, fld) ==
    LET summed ==
            [p \in DOMAIN neu1 |->
                IF p \in (fld * cfg.size)..(fld * cfg.size + cfg.size - 1)
                THEN neu1[p] +
                     SumSet([m \in ctx |->
                                Mul(ONEF, mats[SlotHandle(cfg, fld)]
                                              [indexes[m] * cfg.size + (p - fld * cfg.size)])],
                            ctx)
                ELSE neu1[p]]
    IN  sscal(cfg.size, inv, summed, fld * cfg.size)

\* lines 214-253: neu1 after both aggregation blocks
Projection(cfg, indexes, i, j, k, mats, junk) ==
    LET ctx == Context(i, j, k)
        inv == InvCount(i, j, k)
        n0 == ZeroBuffer(ProjNum(cfg) * cfg.size)
        n1 == IF cfg.use_sub # 0
              THEN AggregateSub(cfg, indexes, ctx, inv, mats, n0, 0, junk)
              ELSE n0
    IN  IF cfg.use_head # 0
        THEN AggregateHead(cfg, indexes, ctx, inv, mats, n1, HeadFld(cfg))
        ELSE n1

\* lines 325-332: scale every active field's work slice by inv_count
ScaleWork(cfg, inv, work) ==
    IF cfg.cbow_mean # 0
    THEN LET w1 == IF cfg.use_sub # 0 THEN sscal(cfg.size, inv, work, 0) ELSE work
         IN  IF cfg.use_head # 0
             THEN sscal(cfg.size, inv, w1, HeadFld(cfg) * cfg.size)
             ELSE w1
    ELSE work

\* lines 337-351: every sub-unit row of every context token receives
\* LengInv[token] * work[sub slice]
ScatterSub(cfg, indexes, ctx, work, sub, junk) ==
    LET pairs == GrainPairs(indexes, ctx, junk)
    IN  [p \in DOMAIN sub |->
            LET hits == { q \in pairs : LookUp[q[2]] = p \div cfg.size }
            IN  sub[p] +
                SumSet([q \in hits |-> Mul(LengInv[indexes[q[1]]], work[p % cfg.size])],
                       hits)]

\* lines 353-359: every context token's row of syn0_map[fld] receives
\* word_locks[token] * work[head slice]
ScatterHead(cfg, indexes, ctx, work, head, fld) ==
    [p \in DOMAIN head |->
        LET hits == { m \in ctx : indexes[m] = p \div cfg.size }
        IN  head[p] +
            SumSet([m \in hits |->
                       Mul(word_locks[indexes[m]], work[fld * cfg.size + (p % cfg.size)])],
                   hits)]

(***************************************************************************)
(* The loop "for d in range(negative + 1)" (lines 258-321, 647-711).       *)
(* env: [cfg, word_index]; st: the state the loop threads through its      *)
(* iterations,                                                             *)
(*   neg          syn1neg                                                  *)
(*   neu1         the projection buffer                                    *)
(*   work         the work buffer                                          *)
(*   next_random  the generator state                                      *)
(*   loss         _running_training_loss_param[0]                          *)
(*   g            the gradient scalars (g2 and g of the first variant,     *)
(*                g[fld_idx] of the second), by field slot                 *)
(*   i            the local i (the second variant reuses it as a loop      *)
(*                variable)                                                *)
(*   draws        how often the generator was advanced                     *)
(*   log          one record per iteration: what it did                    *)
(***************************************************************************)
\* line 264: bisect_left(cum_table, (next_random >> 16) % cum_table[len-1], 0, len)
DrawNegative(next_random) ==
    bisect_left(cum_table,
                Shift16Mod(next_random, cum_table[cum_table_len - 1]),
                0, cum_table_len)

\* the row of syn1neg that starts at offset row2
OutputRow(cfg, neg, row2) == [e \in 0..(cfg.size - 1) |-> neg[row2 + e]]

\* the record of an iteration: sat = the fields whose dot product with the
\* output row, as it was when the iteration began, is saturated; p1 = the
\* fields that accumulated into work; p2 = the fields that updated the
\* output row; stale = the fields whose phase 2 used a gradient scalar
\* that this iteration did not compute; row0, row1 = the output row when
\* the iteration began and when it ended; read = <<field, the output row
\* its our_dot and our_saxpy of phase 1 read>>; neu1 = the projection
\* buffer when the iteration ended
NewEntry(env, st, d, target, label) ==
    [d |-> d, target |-> target, label |-> label, hit |-> FALSE,
     sat |-> { fld \in ActiveFields(env.cfg) :
                 Saturated(our_dot(env.cfg.size, st.neu1, fld * env.cfg.size,
                                   st.neg, target * env.cfg.size)) },
     p1 |-> {}, p2 |-> {}, stale |-> {},
     row0 |-> OutputRow(env.cfg, st.neg, target * env.cfg.size),
     row1 |-> OutputRow(env.cfg, st.neg, target * env.cfg.size),
     read |-> {}, neu1 |-> st.neu1]

\* a faulty variant of lines 277-290: the output row is updated as soon as
\* the field is scored
NeatScoreInterleaved(env, st, cur, d, fld, label, row2) ==
    With(our_dot(env.cfg.size, st.neu1, fld * env.cfg.size, st.neg, row2),
         LAMBDA f_raw :
    LET cfg == env.cfg
        f_dot == IF cfg.compute_loss = 1 /\ d # 0 THEN -f_raw ELSE f_raw
        seen == <<fld, OutputRow(cfg, st.neg, row2)>>
    IN  IF Saturated(f_dot)
        THEN [skip |-> TRUE, st |-> st,
              cur |-> [cur EXCEPT !.read = @ \cup {seen}]]
        ELSE LET f == EXP_TABLE(TableIndex(f_dot))
                 gval == Mul(label - f, cfg.alpha)
             IN  [skip |-> FALSE,
                  st |-> [st EXCEPT
                            !.g = [@ EXCEPT ![fld] = gval],
                            !.work = our_saxpy(cfg.size, gval, st.neg, row2,
                                               @, fld * cfg.size),
                            !.neg = our_saxpy(cfg.size, gval, st.neu1,
                                              fld * cfg.size, @, row2)],
                  cur |-> [cur EXCEPT !.p1 = @ \cup {fld},
                                      !.read = @ \cup {seen}]])

\* lines 277-290 (sub) and 295-309 (head) of the first variant.  With
\* _compute_loss == 1 the sign of f_dot is flipped for d > 0 before the
\* saturation test and both table look-ups.
NeatScore(env, st, cur, d, fld, label, row2) ==
    With(our_dot(env.cfg.size, st.neu1, fld * env.cfg.size, st.neg, row2),
         LAMBDA f_raw :
    LET cfg == env.cfg
        f_dot == IF cfg.compute_loss = 1 /\ d # 0 THEN -f_raw ELSE f_raw
        seen == <<fld, OutputRow(cfg, st.neg, row2)>>
    IN  IF Saturated(f_dot)
        THEN [skip |-> TRUE, st |-> st,
              cur |-> [cur EXCEPT !.read = @ \cup {seen}]]
        ELSE LET f == EXP_TABLE(TableIndex(f_dot))
                 gval == Mul(label - f, cfg.alpha)
             IN  [skip |-> FALSE,
                  st |-> [st EXCEPT
                            !.loss = IF cfg.compute_loss = 1
                                     THEN @ - LOG_TABLE(TableIndex(f_dot))
                                     ELSE @,
                            !.g = [@ EXCEPT ![fld] = gval],
                            !.work = our_saxpy(cfg.size, gval, st.neg, row2,
                                               @, fld * cfg.size)],
                  cur |-> [cur EXCEPT !.p1 = @ \cup {fld},
                                      !.read = @ \cup {seen}]])

\* lines 669-682 (sub) and 687-700 (head) of the second variant
NegsampScore(env, st, cur, d, fld, label, row2) ==
    With(our_dot(env.cfg.size, st.neu1, fld * env.cfg.size, st.neg, row2),
         LAMBDA f_dot :
    LET cfg == env.cfg
        seen == <<fld, OutputRow(cfg, st.neg, row2)>>
    IN  IF Saturated(f_dot)
        THEN [skip |-> TRUE, st |-> st,
              cur |-> [cur EXCEPT !.read = @ \cup {seen}]]
        ELSE LET f == EXP_TABLE(TableIndex(f_dot))
                 gval == Mul(label - f, cfg.alpha)
                 signed == IF d = 0 THEN f_dot ELSE -f_dot
             IN  [skip |-> FALSE,
                  st |-> [st EXCEPT
                            !.loss = IF cfg.compute_loss = 1
                                     THEN @ - LOG_TABLE(TableIndex(signed))
                                     ELSE @,
                            !.g = [@ EXCEPT ![fld] = gval],
                            !.work = our_saxpy(cfg.size, gval, st.neg, row2,
                                               @, fld * cfg.size)],
                  cur |-> [cur EXCEPT !.p1 = @ \cup {fld},
                                      !.read = @ \cup {seen}]])

\* one saxpy of phase 2 (lines 317, 320, 707, 710):
\* syn1neg[row2] += g[fld] * neu1[fld]
OutputUpdate(env, st, cur, fld, row2) ==
    [st |-> [st EXCEPT !.neg = our_saxpy(env.cfg.size, st.g[fld], st.neu1,
                                         fld * env.cfg.size, @, row2)],
     cur |-> [cur EXCEPT !.p2 = @ \cup {fld},
                         !.stale = IF fld \in cur.p1 THEN @ ELSE @ \cup {fld}]]

\* lines 314-320 and 704-710: phase 2 for the sub field, then the head field
Phase2(env, st, cur, row2) ==
    With(IF env.cfg.use_sub # 0
         THEN OutputUpdate(env, st, cur, 0, row2)
         ELSE [st |-> st, cur |-> cur],
         LAMBDA a :
    IF env.cfg.use_head # 0
    THEN OutputUpdate(env, a.st, a.cur, HeadFld(env.cfg), row2)
    ELSE a)

\* the iteration is over: its record joins the log
Logged(st, cur) ==
    [st EXCEPT !.log =
        Append(@, [cur EXCEPT
                     !.row1 = [e \in DOMAIN @ |-> st.neg[cur.target * Cardinality(DOMAIN @) + e]],
                     !.neu1 = st.neu1])]

\* lines 260-268: the target of iteration d and the generator after it
IterTarget(env, st, d) ==
    IF d = 0 THEN env.word_index ELSE DrawNegative(st.next_random)

\* a faulty variant: no test of the draw against the target
HitNever(env, d, target) == FALSE

\* lines 269, 656: if target_index == word_index: continue
Hit(env, d, target) == d # 0 /\ target = env.word_index

\* lines 265, 655: the generator is advanced once per negative slot
IterAdvance(st, d) ==
    IF d = 0
    THEN st
    ELSE [st EXCEPT !.next_random = InlineAdvance(@), !.draws = @ + 1]

\* one iteration of the first variant (lines 259-320): a "continue" in the
\* sub or the head block ends the iteration
NeatIter(env, st, d) ==
    With(IterTarget(env, st, d), LAMBDA target :
    With(IterAdvance(st, d), LAMBDA s0 :
    With(NewEntry(env, st, d, target, IF d = 0 THEN ONEF ELSE 0), LAMBDA cur :
    LET label == IF d = 0 THEN ONEF ELSE 0
        row2 == target * env.cfg.size
    IN  IF Hit(env, d, target)
        THEN Logged(s0, [cur EXCEPT !.hit = TRUE, !.sat = {}])
        ELSE With(IF env.cfg.use_sub # 0
                  THEN NeatScore(env, s0, cur, d, 0, label, row2)
                  ELSE [skip |-> FALSE, st |-> s0, cur |-> cur],
                  LAMBDA sub :
             IF sub.skip
             THEN Logged(sub.st, sub.cur)
             ELSE With(IF env.cfg.use_head # 0
                       THEN NeatScore(env, sub.st, sub.cur, d,
                                      ScoreHeadFld(env.cfg), label, row2)
                       ELSE sub,
                       LAMBDA head :
                  IF head.skip
                  THEN Logged(head.st, head.cur)
                  ELSE With(Phase2(env, head.st, head.cur, row2),
                            LAMBDA done : Logged(done.st, done.cur)))))))

RECURSIVE NegsampSubLoop(_, _, _, _, _, _, _)
\* lines 665-682: "for i in range(use_sub)"; a "continue" goes on with the
\* next i; the loop leaves the local i at its last value
NegsampSubLoop(env, st, cur, d, label, row2, ii) ==
    IF ii >= env.cfg.use_sub
    THEN [st |-> st, cur |-> cur]
    ELSE With(NegsampScore(env, st, cur, d, ii, label, row2),
              LAMBDA v : NegsampSubLoop(env, [v.st EXCEPT !.i = ii], v.cur,
                                        d, label, row2, ii + 1))

\* one iteration of the second variant (lines 648-710): only a "continue"
\* in the head block ends the iteration
NegsampIter(env, st, d) ==
    With(IterTarget(env, st, d), LAMBDA target :
    With(IterAdvance(st, d), LAMBDA s0 :
    With(NewEntry(env, st, d, target, IF d = 0 THEN ONEF ELSE 0), LAMBDA cur :
    LET label == IF d = 0 THEN ONEF ELSE 0
        row2 == target * env.cfg.size
    IN  IF Hit(env, d, target)
        THEN Logged(s0, [cur EXCEPT !.hit = TRUE, !.sat = {}])
        ELSE With(NegsampSubLoop(env, s0, cur, d, label, row2, 0), LAMBDA sub :
             With(IF env.cfg.use_head # 0
                  THEN NegsampScore(env, sub.st, sub.cur, d,
                                    ScoreHeadFld(env.cfg), label, row2)
                  ELSE [skip |-> FALSE, st |-> sub.st, cur |-> sub.cur],
                  LAMBDA head :
             IF head.skip
             THEN Logged(head.st, head.cur)
             ELSE With(Phase2(env, head.st, head.cur, row2),
                       LAMBDA done : Logged(done.st, done.cur)))))))

RECURSIVE NegLoop(_, _, _)
\* for d in range(negative + 1)
NegLoop(env, st, d) ==
    IF d > env.cfg.negative
    THEN st
    ELSE With(IF env.cfg.variant = "neat"
              THEN NeatIter(env, st, d)
              ELSE NegsampIter(env, st, d),
              LAMBDA v : NegLoop(env, v, d + 1))

\* the whole per-token update: fieldembed_token_neg_0X1_neat (lines 146-362)
\* for cfg.variant = "neat", fieldembed_negsamp (lines 519-756) otherwise.
\* junk = [endidx, g]: what a read before EndIdx and a read of an
\* unassigned g[] yield.
TokenUpdate(cfg, indexes, i, j, k, mats, next_random, loss, junk) ==
    With(Projection(cfg, indexes, i, j, k, mats, junk.endidx), LAMBDA neu1 :
    With(NegLoop([cfg |-> cfg, word_index |-> indexes[i]],
                 [neg |-> mats.neg,
                  neu1 |-> neu1,
                  work |-> ZeroBuffer(ProjNum(cfg) * cfg.size),
                  next_random |-> next_random,
                  loss |-> loss,
                  g |-> [fld \in 0..(ProjNum(cfg) - 1) |-> junk.g],
                  i |-> i,
                  draws |-> 0,
                  log |-> <<>>],
                 0),
         LAMBDA st :
    With(ScaleWork(cfg, InvCount(i, j, k), st.work), LAMBDA work :
    \* the scatter loops compare m with the local i as the d loop left it
    LET scat == Context(st.i, j, k)
        h == SlotHandle(cfg, HeadFld(cfg))
        m1 == IF cfg.use_sub # 0
              THEN [mats EXCEPT !.sub = ScatterSub(cfg, indexes, scat, work, @,
                                                   junk.endidx)]
              ELSE mats
        m2 == IF cfg.use_head # 0
              THEN [m1 EXCEPT ![h] = ScatterHead(cfg, indexes, scat, work, @,
                                                 HeadFld(cfg))]
              ELSE m1
    IN  [mats |-> [m2 EXCEPT !.neg = st.neg],
         next_random |-> st.next_random,
         loss |-> st.loss,
         draws |-> st.draws,
         log |-> st.log,
         neu1 |-> neu1,
         work |-> work,
         scat |-> scat])))

(***************************************************************************)
(* train_batch_fieldembed_0X1_neat (lines 364-457) and                     *)
(* train_batch_fieldembed_negsamp (lines 758-856).                         *)
(***************************************************************************)
ToArray(seq) == [p \in 0..(Len(seq) - 1) |-> seq[p + 1]]

ArrayLen(a) == Cardinality(DOMAIN a)

\* the values an unassigned g[fld] may hold
JunkG == {-ONEF, ONEF}

\* the values a read of EndIdx[-1] may yield without leaving the sub-unit
\* tables: any gs >= EndIdx[0] gives an empty range(gs, ge)
JunkEndIdx == {0}

BatchIdle ==
    /\ call = [variant |-> "none"]
    /\ c = [next_random |-> <<0, 0, 0, 0>>]
    /\ drv = [pc |-> "idle"]
    /\ mdl = [running_training_loss |-> 0]
    /\ gh = [calls |-> <<>>]

\* the state after init_w2v_config (lines 94-144, 463-516) for one call;
\* the stack buffers of c start zeroed
BatchStart(cl, seed, mats) ==
    /\ call = cl
    /\ c = [indexes |-> [p \in 0..(MAX_SENTENCE_LEN - 1) |-> 0],
            sentence_idx |-> [p \in 0..MAX_SENTENCE_LEN |-> 0],
            reduced_windows |-> [p \in 0..(MAX_SENTENCE_LEN - 1) |-> 0],
            next_random |-> seed,
            running_training_loss |-> 0]
    /\ drv = [pc |-> IF cl.subsampling # 0 THEN "pack" ELSE "copy",
              sent_idx |-> 0, pos |-> 0, brk |-> FALSE,
              idx_start |-> 0, idx_end |-> 0, i |-> 0, j |-> 0, k |-> 0,
              effective_words |-> 0, effective_sentences |-> 0, ret |-> -1]
    /\ mdl = [mats |-> mats, running_training_loss |-> 0]
    /\ gh = [calls |-> <<>>, packedFrom |-> <<>>,
             oobWrite |-> FALSE, oobRead |-> FALSE, mats0 |-> mats,
             ctxTokens |-> {}, tableTokens |-> {}, outRows |-> {},
             last |-> [log |-> <<>>]]

NumSentences == ArrayLen(call.sentence_idx)

\* indexes[idx_start: idx_end] ends at the end of the list at the latest
InputEnd(sent) == Min(call.sentence_idx[sent], ArrayLen(call.indexes))

\* a faulty variant: every input slice starts at 0
InputStartMutant(sent) == 0

\* lines 378-381: the input slice of sentence sent_idx starts at 0 or at
\* the boundary of the sentence before it
InputStart(sent) == IF sent = 0 THEN 0 ELSE call.sentence_idx[sent - 1]

Packing == drv.pc = "pack" /\ drv.sent_idx < NumSentences

InSentence == Packing /\ ~drv.brk /\ drv.pos < InputEnd(drv.sent_idx)

\* a faulty variant of line 386: <= 2 in place of <= 3
IsSpecialMutant(tok) == tok <= 2

\* line 386: if word_vocidx <= 3
IsSpecial(tok) == tok <= 3

\* line 388: c.sample and vlookup[word_vocidx].sample_int < random_int32(...)
Downsampled(tok) ==
    call.sample # 0 /\ Less32(sample_int[tok], random_int32(c.next_random).draw)

\* the generator after line 388: random_int32 is called only when c.sample
AfterSampleDraw ==
    IF call.sample # 0 THEN random_int32(c.next_random).next ELSE c.next_random

\* lines 386-387: a special token is dropped
PackSkipSpecial ==
    /\ InSentence
    /\ IsSpecial(call.indexes[drv.pos])
    /\ drv' = [drv EXCEPT !.pos = @ + 1]
    /\ UNCHANGED <<bis, rng, call, c, mdl, gh>>

\* lines 388-389: a frequent token is dropped
PackSkipSampled ==
    /\ InSentence
    /\ ~IsSpecial(call.indexes[drv.pos])
    /\ Downsampled(call.indexes[drv.pos])
    /\ c' = [c EXCEPT !.next_random = AfterSampleDraw]
    /\ drv' = [drv EXCEPT !.pos = @ + 1]
    /\ UNCHANGED <<bis, rng, call, mdl, gh>>

\* a faulty variant of lines 394, 400: the test one token late
CapacityReachedMutant(n) == n = MAX_SENTENCE_LEN + 1

\* lines 394, 400: if effective_words == MAX_SENTENCE_LEN
CapacityReached(n) == n = MAX_SENTENCE_LEN

\* lines 392-395: the token is stored; the sentence loop ends at capacity
PackKeep ==
    /\ InSentence
    /\ ~IsSpecial(call.indexes[drv.pos])
    /\ ~Downsampled(call.indexes[drv.pos])
    /\ IF drv.effective_words \in DOMAIN c.indexes
       THEN /\ c' = [c EXCEPT !.next_random = AfterSampleDraw,
                              !.indexes[drv.effective_words] = call.indexes[drv.pos]]
            /\ drv' = [drv EXCEPT !.pos = @ + 1,
                                  !.effective_words = @ + 1,
                                  !.brk = CapacityReached(drv.effective_words + 1)]
            /\ gh' = [gh EXCEPT !.packedFrom = Append(@, drv.pos)]
       ELSE /\ c' = [c EXCEPT !.next_random = AfterSampleDraw]
            /\ drv' = [drv EXCEPT !.pc = "ub", !.effective_words = @ + 1]
            /\ gh' = [gh EXCEPT !.oobWrite = TRUE]
    /\ UNCHANGED <<bis, rng, call, mdl>>

\* lines 397-401: the boundary of the sentence is recorded; the batch loop
\* ends at capacity or after the last sentence
PackSentenceEnd ==
    /\ Packing
    /\ drv.brk \/ drv.pos >= InputEnd(drv.sent_idx)
    /\ c' = [c EXCEPT !.sentence_idx[drv.effective_sentences] = drv.effective_words]
    /\ drv' = [drv EXCEPT
                 !.effective_sentences = @ + 1,
                 !.brk = FALSE,
                 !.sent_idx = @ + 1,
                 !.pos = InputStart(drv.sent_idx + 1),
                 !.pc = IF CapacityReached(drv.effective_words)
                           \/ drv.sent_idx + 1 = NumSentences
                        THEN "reduce"
                        ELSE "pack"]
    /\ UNCHANGED <<bis, rng, call, mdl, gh>>

\* line 376 with an empty sentence_idx: the loop body never runs
PackNothing ==
    /\ drv.pc = "pack"
    /\ NumSentences = 0
    /\ drv' = [drv EXCEPT !.pc = "reduce"]
    /\ UNCHANGED <<bis, rng, call, c, mdl, gh>>

\* lines 403-410: without subsampling indexes and sentence_idx are copied
\* as they are, however long; a write past a buffer is undefined behaviour
\* and the model follows the call no further
CopyVerbatim ==
    /\ drv.pc = "copy"
    /\ LET fits == /\ ArrayLen(call.indexes) <= MAX_SENTENCE_LEN
                   /\ NumSentences <= MAX_SENTENCE_LEN + 1
       IN  /\ c' = [c EXCEPT
                      !.indexes = [p \in DOMAIN @ |->
                                     IF p \in DOMAIN call.indexes
                                     THEN call.indexes[p] ELSE @[p]],
                      !.sentence_idx = [p \in DOMAIN @ |->
                                          IF p \in DOMAIN call.sentence_idx
                                          THEN call.sentence_idx[p] ELSE @[p]]]
           /\ drv' = [drv EXCEPT !.effective_words = ArrayLen(call.indexes),
                                 !.effective_sentences = NumSentences,
                                 !.pc = IF fits THEN "reduce" ELSE "ub"]
           /\ gh' = [gh EXCEPT !.oobWrite = ~fits]
    /\ UNCHANGED <<bis, rng, call, mdl>>

\* lines 412-414: model.random.randint(0, c.window, effective_words)
ReduceWindows ==
    /\ drv.pc = "reduce"
    /\ \E rw \in [0..(drv.effective_words - 1) -> 0..(call.window - 1)] :
          c' = [c EXCEPT !.reduced_windows =
                            [p \in DOMAIN @ |-> IF p \in DOMAIN rw THEN rw[p] ELSE @[p]]]
    /\ drv' = [drv EXCEPT !.pc = "sentence", !.sent_idx = 0]
    /\ UNCHANGED <<bis, rng, call, mdl, gh>>

(***************************************************************************)
(* The training loops (lines 416-454, 814-853).                            *)
(***************************************************************************)
\* lines 417-423: the bounds of sentence sent_idx, or the end of the loop
TrainSentence ==
    /\ drv.pc = "sentence"
    /\ drv.sent_idx < drv.effective_sentences
    /\ drv' = [drv EXCEPT
                 !.idx_end = c.sentence_idx[drv.sent_idx],
                 !.idx_start = IF drv.sent_idx = 0 THEN 0
                               ELSE c.sentence_idx[drv.sent_idx - 1],
                 !.i = IF drv.sent_idx = 0 THEN 0
                       ELSE c.sentence_idx[drv.sent_idx - 1],
                 !.pc = "target"]
    /\ UNCHANGED <<bis, rng, call, c, mdl, gh>>

\* a faulty variant: j without the clamp of lines 427-428
WindowStartUnclamped(i) == i - call.window + c.reduced_windows[i]

\* a faulty variant of lines 427-428: j clamped to the start of the batch
WindowStartOfBatch(i) == Max(0, i - call.window + c.reduced_windows[i])

\* lines 426-428: j = i - window + reduced_windows[i], at least idx_start
WindowStart(i) == Max(drv.idx_start, i - call.window + c.reduced_windows[i])

\* a faulty variant: k without the clamp of lines 430-431
WindowEndUnclamped(i) == i + call.window + 1 - c.reduced_windows[i]

\* lines 429-431: k = i + window + 1 - reduced_windows[i], at most idx_end
WindowEnd(i) == Min(drv.idx_end, i + call.window + 1 - c.reduced_windows[i])

\* the sentence is finished: on to the next one
TrainSentenceDone ==
    /\ drv.pc = "target"
    /\ drv.i >= drv.idx_end
    /\ drv' = [drv EXCEPT !.sent_idx = @ + 1, !.pc = "sentence"]
    /\ UNCHANGED <<bis, rng, call, c, mdl, gh>>

\* the position the scatter loops of an invocation for target i skip: the
\* second variant's "for i in range(use_sub)" (line 666) has overwritten i
ScatterSkip(i) ==
    IF call.variant = "negsamp" /\ call.use_sub # 0 THEN call.use_sub - 1 ELSE i

\* the positions whose token indexes EndIdx and LengInv in an invocation
\* with window [j, k) for target i (lines 225-229, 344-348)
TableReadPositions(i, j, k) ==
    IF call.use_sub # 0
    THEN Context(i, j, k) \cup Context(ScatterSkip(i), j, k)
    ELSE {}

\* an invocation with window [j, k) for target i reads EndIdx[-1] when the
\* sub field is on and one of these positions holds token 0
ReadsBeforeEndIdx(i, j, k) ==
    \E m \in TableReadPositions(i, j, k) : c.indexes[m] = 0

\* the effect of c.next_random = fieldembed_...(..., i, j, k, ...) on the
\* call's state (lines 438-445, 448-454)
Returned(i, j, k, r) ==
    /\ c' = [c EXCEPT !.next_random = r.next_random,
                      !.running_training_loss = r.loss]
    /\ mdl' = [mdl EXCEPT !.mats = r.mats]
    /\ gh' = [gh EXCEPT
                !.calls = Append(@, [i |-> i, j |-> j, k |-> k,
                                     before |-> c.next_random,
                                     after |-> r.next_random]),
                !.oobRead = @ \/ ReadsBeforeEndIdx(i, j, k),
                !.ctxTokens = @ \cup { c.indexes[m] : m \in Context(i, j, k) },
                !.tableTokens = @ \cup { c.indexes[m] : m \in TableReadPositions(i, j, k) },
                !.outRows = @ \cup { r.log[n].target : n \in DOMAIN r.log },
                !.last = [i |-> i, j |-> j, k |-> k,
                          word_index |-> c.indexes[i],
                          before |-> c.next_random,
                          draws |-> r.draws, log |-> r.log,
                          scat |-> r.scat,
                          neu1 |-> r.neu1, work |-> r.work,
                          mats0 |-> mdl.mats]]

Invoke(i, j, k, junk) ==
    Returned(i, j, k,
             TokenUpdate(call, c.indexes, i, j, k, mdl.mats, c.next_random,
                         c.running_training_loss, junk))

\* lines 446-454: one invocation per target with the whole window
TrainCbow ==
    /\ drv.pc = "target"
    /\ drv.i < drv.idx_end
    /\ call.sg # 1
    /\ \E g \in JunkG, e \in JunkEndIdx :
          Invoke(drv.i, WindowStart(drv.i), WindowEnd(drv.i), [g |-> g, endidx |-> e])
    /\ drv' = [drv EXCEPT !.i = @ + 1,
                          !.j = WindowStart(drv.i), !.k = WindowEnd(drv.i)]
    /\ UNCHANGED <<bis, rng, call>>

\* lines 434-435: skip-gram walks the window with the loop variable j
TrainSgWindow ==
    /\ drv.pc = "target"
    /\ drv.i < drv.idx_end
    /\ call.sg = 1
    /\ drv' = [drv EXCEPT !.j = WindowStart(drv.i), !.k = WindowEnd(drv.i),
                          !.pc = "sgloop"]
    /\ UNCHANGED <<bis, rng, call, c, mdl, gh>>

\* lines 436-437: if j == i: continue
TrainSgSkipTarget ==
    /\ drv.pc = "sgloop"
    /\ drv.j < drv.k
    /\ drv.j = drv.i
    /\ drv' = [drv EXCEPT !.j = @ + 1]
    /\ UNCHANGED <<bis, rng, call, c, mdl, gh>>

\* a faulty variant: skip-gram invocations with the whole rest of the window
SgWindowEndWhole(j) == drv.k

\* line 440: the window of a skip-gram invocation is [j, j + 1)
SgWindowEnd(j) == j + 1

\* lines 438-445: one invocation per context position, window [j, j + 1)
TrainSgInvoke ==
    /\ drv.pc = "sgloop"
    /\ drv.j < drv.k
    /\ drv.j # drv.i
    /\ \E g \in JunkG, e \in JunkEndIdx :
          Invoke(drv.i, drv.j, SgWindowEnd(drv.j), [g |-> g, endidx |-> e])
    /\ drv' = [drv EXCEPT !.j = @ + 1]
    /\ UNCHANGED <<bis, rng, call>>

\* the window is exhausted: on to the next target
TrainSgDone ==
    /\ drv.pc = "sgloop"
    /\ drv.j >= drv.k
    /\ drv' = [drv EXCEPT !.i = @ + 1, !.pc = "target"]
    /\ UNCHANGED <<bis, rng, call, c, mdl, gh>>

\* a read of EndIdx[-1] may also yield a value that sends the sub-unit
\* loops outside the tables; the model follows the call no further
TrainWildRead ==
    /\ \/ /\ drv.pc = "target" /\ drv.i < drv.idx_end /\ call.sg # 1
          /\ ReadsBeforeEndIdx(drv.i, WindowStart(drv.i), WindowEnd(drv.i))
       \/ /\ drv.pc = "sgloop" /\ drv.j < drv.k /\ drv.j # drv.i
          /\ ReadsBeforeEndIdx(drv.i, drv.j, SgWindowEnd(drv.j))
    /\ drv' = [drv EXCEPT !.pc = "ub"]
    /\ gh' = [gh EXCEPT
                !.oobRead = TRUE,
                !.tableTokens = @ \cup
                    { c.indexes[m] :
                        m \in IF drv.pc = "target"
                              THEN TableReadPositions(drv.i, WindowStart(drv.i),
                                                      WindowEnd(drv.i))
                              ELSE TableReadPositions(drv.i, drv.j,
                                                      SgWindowEnd(drv.j)) }]
    /\ UNCHANGED <<bis, rng, call, c, mdl>>

\* lines 456-457: the loss is written back; effective_words is returned
TrainReturn ==
    /\ drv.pc = "sentence"
    /\ drv.sent_idx >= drv.effective_sentences
    /\ mdl' = [mdl EXCEPT !.running_training_loss = c.running_training_loss]
    /\ drv' = [drv EXCEPT !.ret = drv.effective_words, !.pc = "done"]
    /\ UNCHANGED <<bis, rng, call, c, gh>>

NextBatch ==
    \/ PackSkipSpecial \/ PackSkipSampled \/ PackKeep \/ PackSentenceEnd
    \/ PackNothing \/ CopyVerbatim \/ ReduceWindows
    \/ TrainSentence \/ TrainSentenceDone \/ TrainCbow
    \/ TrainSgWindow \/ TrainSgSkipTarget \/ TrainSgInvoke \/ TrainSgDone
    \/ TrainWildRead \/ TrainReturn

(***************************************************************************)
(* The calls the specifications start from.                                *)
(***************************************************************************)
\* the vector dimension model.wv.vector_size (line 133)
VectorSize == 1

\* model.negative (line 106)
Negative == 2

\* the sub-units of a second sub field, model.field_sub[0][1]
Sub1Units == 7

\* initial embedding matrices [sub, sub1, head, neg]: "small" keeps every dot
\* product inside (-MAX_EXP, MAX_EXP); "bigsub" and "bighead" push the sub
\* or the head projection out of it for some output rows
Weights(preset) ==
    [sub |-> [p \in 0..(SubUnits * VectorSize - 1) |->
                IF preset = "bigsub" THEN 8 * ONEF
                ELSE (ONEF \div 2) * ((p \div VectorSize) + 1)],
     sub1 |-> [p \in 0..(Sub1Units * VectorSize - 1) |->
                (ONEF \div 8) * ((p \div VectorSize) + 1)],
     head |-> [p \in 0..(VocabSize * VectorSize - 1) |->
                IF preset = "bighead" THEN 2 * ONEF * (p \div VectorSize)
                ELSE (ONEF \div 4) * (p \div VectorSize)],
     neg |-> [p \in 0..(VocabSize * VectorSize - 1) |->
                (ONEF \div 2) * ((p \div VectorSize) - 3) - (p % VectorSize)]]

Presets == {"small", "bigsub", "bighead"}

\* the settings init_w2v_config copies from the model, and the arguments
Settings(variant, subsampling, sg, sample, window, loss, us, uh, mean) ==
    [variant |-> variant, subsampling |-> subsampling, sg |-> sg,
     sample |-> sample, window |-> window, compute_loss |-> loss,
     use_sub |-> us, use_head |-> uh, cbow_mean |-> mean,
     negative |-> Negative, alpha |-> ONEF, size |-> VectorSize]

WithInput(settings, indexes, sentence_idx) ==
    [variant |-> settings.variant, subsampling |-> settings.subsampling,
     sg |-> settings.sg, sample |-> settings.sample,
     window |-> settings.window, compute_loss |-> settings.compute_loss,
     use_sub |-> settings.use_sub, use_head |-> settings.use_head,
     cbow_mean |-> settings.cbow_mean, negative |-> settings.negative,
     alpha |-> settings.alpha, size |-> settings.size,
     indexes |-> ToArray(indexes), sentence_idx |-> ToArray(sentence_idx)]

Variants == {"neat", "negsamp"}

\* the batches of the kernel specification: <<indexes, sentence_idx>>
KernelBatches ==
    { <<<<4, 5, 6>>, <<3>>>>,
      <<<<5, 4, 5>>, <<3>>>>,
      <<<<4, 5>>, <<1, 2>>>>,
      <<<<6, 4>>, <<2>>>>,
      <<<<0, 4, 6>>, <<3>>>>,
      <<<<4, 3, 5, 6>>, <<2, 4>>>>,
      <<<<4, 4, 5, 4, 6>>, <<2, 5>>>>,
      <<<<4>>, <<>>>> }

\* use_sub = 2: a model with two sub fields, which only the second
\* variant's init_w2v_config binds (line 488)
KernelSettings ==
    { Settings(v, ss, sg, 1, w, loss, f[1], f[2], mean) :
        v \in Variants, ss \in {0, 1}, sg \in {0, 1}, w \in {1, 2},
        loss \in {0, 1}, f \in {<<1, 1>>, <<0, 1>>, <<1, 0>>}, mean \in {0, 1} }
    \cup
    { Settings("negsamp", 0, sg, 1, 2, loss, 2, 1, 1) :
        sg \in {0, 1}, loss \in {0, 1} }

KernelSeeds == { <<7, 0, 2048, 9>>, <<1, 0, 0, 0>>, <<0, 0, 0, 0>> }

\* the state after init_w2v_config for a call of the kernel specification
Init ==
    /\ BisectIdle
    /\ RngIdle
    /\ \E st \in KernelSettings, b \in KernelBatches, seed \in KernelSeeds,
          preset \in Presets :
          BatchStart(WithInput(st, b[1], b[2]), seed, Weights(preset))

Next == NextBatch

(***************************************************************************)
(* Worker threads that call train_batch on one model at the same time.     *)
(* A call holds the interpreter lock while init_w2v_config builds its      *)
(* config and again for the two statements after the training loops; the   *)
(* loops themselves run "with nogil" (lines 416, 814), so the calls of     *)
(* other threads interleave with them.  Here call, c and drv are functions *)
(* of the worker: the number of per-token updates its call makes, its      *)
(* config, its position.                                                   *)
(***************************************************************************)
\* model.workers (line 110)
NumWorkers == 2

\* the per-token updates of one call
MaxUpdates == 2

Workers == 1..NumWorkers

\* what one per-token update may add to the running loss (lines 283, 302):
\* sums of -LOG_TABLE values, which are positive
LossSteps == { -LOG_TABLE(TableIndex(0)), -LOG_TABLE(TableIndex(-2 * ONEF)) }

\* as many calls as workers, none started
WorkersInit ==
    /\ call \in [Workers -> [updates : 1..MaxUpdates]]
    /\ c = [t \in Workers |-> [running_training_loss |-> 0]]
    /\ drv = [t \in Workers |-> [pc |-> "start", made |-> 0]]
    /\ mdl \in [running_training_loss : {0, ONEF}]
    /\ gh = [initial |-> mdl.running_training_loss, contributed |-> 0]

\* line 112 (482): c.running_training_loss = model.running_training_loss
WorkerInitConfig(t) ==
    /\ drv[t].pc = "start"
    /\ c' = [c EXCEPT ![t].running_training_loss = mdl.running_training_loss]
    /\ drv' = [drv EXCEPT ![t].pc = "train"]
    /\ UNCHANGED <<bis, rng, call, mdl, gh>>

\* one per-token update inside the nogil block: the kernel adds to
\* c.running_training_loss through the pointer it was given (lines 445, 454)
WorkerTokenUpdate(t) ==
    /\ drv[t].pc = "train"
    /\ drv[t].made < call[t].updates
    /\ \E step \in LossSteps :
          /\ c' = [c EXCEPT ![t].running_training_loss = @ + step]
          /\ gh' = [gh EXCEPT !.contributed = @ + step]
    /\ drv' = [drv EXCEPT ![t].made = @ + 1]
    /\ UNCHANGED <<bis, rng, call, mdl>>

\* line 456 (855): model.running_training_loss = c.running_training_loss
WorkerWriteBack(t) ==
    /\ drv[t].pc = "train"
    /\ drv[t].made = call[t].updates
    /\ mdl' = [mdl EXCEPT !.running_training_loss = c[t].running_training_loss]
    /\ drv' = [drv EXCEPT ![t].pc = "done"]
    /\ UNCHANGED <<bis, rng, call, c, gh>>

(***************************************************************************)
(* Specifications.                                                         *)
(***************************************************************************)
InitWorkers == WorkersInit /\ BisectIdle /\ RngIdle

NextWorkers ==
    \E t \in Workers :
        \/ WorkerInitConfig(t)
        \/ WorkerTokenUpdate(t)
        \/ WorkerWriteBack(t)

SpecWorkers == InitWorkers /\ [][NextWorkers]_vars

InitDraw == DrawInit /\ BatchIdle

NextDraw ==
    \/ DrawBegin \/ BisectTakeLeft \/ BisectTakeRight \/ BisectReturn
    \/ DrawAdvance

SpecDraw == InitDraw /\ [][NextDraw]_vars

InitBisect == BisectInit /\ RngIdle /\ BatchIdle

NextBisect == BisectTakeLeft \/ BisectTakeRight \/ BisectReturn

SpecBisect == InitBisect /\ [][NextBisect]_vars

InitPrng == RngInit /\ BisectIdle /\ BatchIdle

NextPrng == RandomInt32Call \/ InlineDraw

SpecPrng == InitPrng /\ [][NextPrng]_vars

Spec == Init /\ [][Next]_vars

(***************************************************************************)
(* Properties of bisect_left, checked under SpecBisect.                    *)
(***************************************************************************)
BisectDone == bis.pc = "done"

\* the first bucket of nonzero width: table[idx] - table[idx-1] > 0
\* (table[0] for idx = 0); n when every bucket is empty
FirstNonzeroBucket(a, n) ==
    IF \E p \in 0..(n - 1) : (IF p = 0 THEN a[0] ELSE a[p] - a[p - 1]) > 0
    THEN CHOOSE p \in 0..(n - 1) :
            /\ (IF p = 0 THEN a[0] ELSE a[p] - a[p - 1]) > 0
            /\ \A q \in 0..(p - 1) : (IF q = 0 THEN a[0] ELSE a[q] - a[q - 1]) = 0
    ELSE n

\* C3: bisect_left(a, x, 0, N) on a non-decreasing table terminates (each
\* iteration shrinks hi - lo, so at most N iterations run) and returns the
\* smallest idx in [0, N] with a[idx] >= x: everything before the result is
\* < x and the element at the result, if any, is >= x.
C3_BisectLowerBound ==
    /\ bis.pc \in {"loop", "done"} =>
          /\ 0 <= bis.lo /\ bis.lo <= bis.hi /\ bis.hi <= bis.n
          /\ bis.steps + (bis.hi - bis.lo) <= bis.n
    /\ BisectDone =>
          /\ bis.lo \in 0..bis.n
          /\ \A p \in 0..(bis.lo - 1) : bis.a[p] < bis.x
          /\ bis.lo < bis.n => bis.a[bis.lo] >= bis.x

C3_Witness ==
    /\ BisectDone
    /\ bis.n = MaxTableLen
    /\ bis.steps >= 2
    /\ bis.lo \in 1..(bis.n - 1)
    /\ bis.a[bis.lo] > bis.x

\* the draw r = c[N-1] - 1 on a table with positive total mass
LastDraw ==
    /\ BisectDone
    /\ bis.n >= 1
    /\ bis.a[bis.n - 1] > 0
    /\ bis.x = bis.a[bis.n - 1] - 1

\* C4 as stated: the draw r = c[N-1] - 1 returns index N-1.
C4_LastDrawReturnsLast == LastDraw => bis.lo = bis.n - 1

\* C4 amended: the draw r = c[N-1] - 1 returns the smallest idx with
\* c[idx] >= c[N-1] - 1; that is N-1 exactly when the last bucket is at
\* least 2 wide (N = 1 or c[N-2] < c[N-1] - 1), and a smaller index
\* otherwise.
C4_LastDrawAmended ==
    LastDraw =>
        /\ bis.lo <= bis.n - 1
        /\ bis.a[bis.lo] >= bis.x
        /\ \A p \in 0..(bis.lo - 1) : bis.a[p] < bis.x
        /\ (bis.lo = bis.n - 1) <=>
              (bis.n = 1 \/ bis.a[bis.n - 2] < bis.a[bis.n - 1] - 1)

C4_Witness == LastDraw /\ bis.n >= 2 /\ bis.lo = bis.n - 1 /\ bis.steps >= 2

\* the draw r = 0 on a table with positive total mass
ZeroDraw ==
    /\ BisectDone
    /\ bis.n >= 1
    /\ bis.a[bis.n - 1] > 0
    /\ bis.x = 0

\* C5 as stated: the draw r = 0 returns the first bucket of nonzero width.
C5_ZeroDrawFirstNonzero == ZeroDraw => bis.lo = FirstNonzeroBucket(bis.a, bis.n)

\* C5 amended: the draw r = 0 returns index 0, which is the first bucket of
\* nonzero width exactly when table[0] > 0.
C5_ZeroDrawAmended ==
    ZeroDraw =>
        /\ bis.lo = 0
        /\ (bis.lo = FirstNonzeroBucket(bis.a, bis.n)) <=> (bis.a[0] > 0)

C5_Witness == ZeroDraw /\ bis.n >= 2 /\ bis.a[0] > 0 /\ bis.steps >= 2

(***************************************************************************)
(* Properties of the generator, checked under SpecPrng.  The reference     *)
(* computes (s * 25214903917 + 11) mod 2^48 by Horner's rule in base 64 on  *)
(* <<low 24 bits, high 24 bits>>.                                          *)
(***************************************************************************)
Half == 2 ^ 24

\* 25214903917 in base 64, most significant digit first
MultiplierDigits == <<23, 30, 59, 14, 25, 45>>

RefAdd(p, q) ==
    <<(p[1] + q[1]) % Half, (p[2] + q[2] + ((p[1] + q[1]) \div Half)) % Half>>

\* p * k mod 2^48 for a small factor 0 <= k <= 64
RefScale(p, k) ==
    <<(p[1] * k) % Half, (p[2] * k + ((p[1] * k) \div Half)) % Half>>

\* Horner's rule over the digits
RefMul(p) ==
    LET h1 == RefScale(p, MultiplierDigits[1])
        h2 == RefAdd(RefScale(h1, 64), RefScale(p, MultiplierDigits[2]))
        h3 == RefAdd(RefScale(h2, 64), RefScale(p, MultiplierDigits[3]))
        h4 == RefAdd(RefScale(h3, 64), RefScale(p, MultiplierDigits[4]))
        h5 == RefAdd(RefScale(h4, 64), RefScale(p, MultiplierDigits[5]))
        h6 == RefAdd(RefScale(h5, 64), RefScale(p, MultiplierDigits[6]))
    IN  h6

RefAdvance(p) == RefAdd(RefMul(p), <<11, 0>>)

RECURSIVE RefAfter(_, _)
RefAfter(p, n) ==
    IF n = 0
    THEN p
    ELSE CHOOSE r \in { RefAdvance(v) : v \in { RefAfter(p, n - 1) } } : TRUE

RefShift16(p) == <<p[2] \div 256, (p[2] % 256) * 256 + (p[1] \div (2 ^ 16))>>

ToHalves(s) == <<s[1] + Limb * s[2], s[3] + Limb * s[4]>>

\* C6: every advance (random_int32 and the inline one) sets the state to
\* (state * 25214903917 + 11) mod 2^48 and yields state_before >> 16; so
\* the state stays below 2^48, every draw is below 2^32, and state and draw
\* depend on the seed and the number of advances only.
C6_PrngAdvance ==
    rng.pc = "run" =>
        /\ \A p \in 1..4 : rng.state[p] \in 0..(Limb - 1)
        /\ ToHalves(rng.state) = RefAfter(ToHalves(rng.seed), rng.n)
        /\ rng.n > 0 =>
              /\ ToHalves(rng.state) = RefAdvance(ToHalves(rng.before))
              /\ rng.draw = RefShift16(ToHalves(rng.before))
              /\ rng.draw = RefShift16(RefAfter(ToHalves(rng.seed), rng.n - 1))
              /\ rng.draw[1] \in 0..(2 ^ 16 - 1)
              /\ rng.draw[2] \in 0..(2 ^ 16 - 1)

C6_Witness ==
    /\ rng.pc = "run"
    /\ rng.n >= 3
    /\ rng.seed = <<4095, 4095, 4095, 4095>>
    /\ rng.draw # <<0, 0>>

(***************************************************************************)
(* Properties of the batch driver and of the per-token update, over the    *)
(* record gh keeps of a call: calls (the invocations made), packedFrom     *)
(* (the input position of every packed token), last (the log of the last   *)
(* invocation), mats0 (the matrices at the start of the call), ctxTokens   *)
(* and outRows (the tokens seen at context positions, the output rows      *)
(* targeted or drawn), tableTokens (the tokens that indexed the sub        *)
(* field's tables), oobWrite and oobRead (an access outside a buffer).     *)
(***************************************************************************)
\* the reserved vocabulary indices
Reserved == 0..3

\* C1: a call on a token stream longer than MAX_SENTENCE_LEN, with
\* subsampling enabled or disabled, never writes past index
\* MAX_SENTENCE_LEN - 1 of the packed index buffer, and its
\* effective-token count, the value it returns, is at most MAX_SENTENCE_LEN.
C1_CapacityRespected ==
    /\ ~gh.oobWrite
    /\ drv.effective_words <= MAX_SENTENCE_LEN
    /\ drv.ret <= MAX_SENTENCE_LEN

Invoked == Len(gh.calls) > 0

\* the positions an invocation reads tokens from: its target and its window
Positions(cl) == {cl.i} \cup (cl.j)..(cl.k - 1)

\* C2 as stated: in either mode no per-token update is invoked whose target
\* position or context position holds a token with index <= 3.
C2_SpecialNeverTrained ==
    \A n \in DOMAIN gh.calls :
        \A m \in Positions(gh.calls[n]) : c.indexes[m] \notin Reserved

\* C2, amended: with subsampling enabled no per-token update is invoked
\* whose target position or context position holds a token with index <= 3.
C2_SpecialNeverTrainedWhenSubsampling ==
    call.subsampling # 0 => C2_SpecialNeverTrained

C2_Witness ==
    /\ call.subsampling # 0
    /\ \E p \in DOMAIN call.indexes : call.indexes[p] \in Reserved
    /\ Invoked
    /\ drv.pc = "done"

\* the log of the last invocation, and its negative slots (d > 0)
LastLog == gh.last.log

NegativeSlots == { n \in DOMAIN LastLog : LastLog[n].d # 0 }

\* the slots whose draw equals the target token of the invocation
HitSlots == { n \in NegativeSlots : LastLog[n].target = gh.last.word_index }

\* the slots that changed the work buffer or an output row
AppliedSlots ==
    { n \in NegativeSlots : LastLog[n].p1 \cup LastLog[n].p2 # {} }

\* the slots a saturated dot product ended before any update
SaturatedSlots ==
    { n \in NegativeSlots \ HitSlots :
        LastLog[n].sat # {} /\ LastLog[n].p1 \cup LastLog[n].p2 = {} }

RECURSIVE AdvancedBy(_, _)
\* the generator state after n steps of lines 265, 655
AdvancedBy(s, n) ==
    IF n = 0 THEN s ELSE With(AdvancedBy(s, n - 1), LAMBDA v : Lcg(v))

\* an invocation advances the generator exactly K = negative times and
\* updates nothing with label 0 for its own target token
DrawsWithoutReplacement ==
    /\ gh.last.draws = call.negative
    /\ c.next_random = AdvancedBy(gh.last.before, call.negative)
    /\ Cardinality(NegativeSlots) = call.negative
    /\ \A n \in HitSlots :
          /\ LastLog[n].label = 0
          /\ LastLog[n].p1 \cup LastLog[n].p2 = {}

\* C7 as stated: a negative draw equal to the target is skipped without a
\* replacement draw; the generator is advanced exactly K times, no output
\* row is updated with label 0 for the target token, and the number of
\* negative updates applied is K minus the number of draws that hit the
\* target.
C7_HitSkipsSlot ==
    Invoked =>
        /\ DrawsWithoutReplacement
        /\ Cardinality(AppliedSlots) =
              call.negative - Cardinality(HitSlots)

\* C7, amended: the generator is advanced exactly K times, no output row
\* is updated with label 0 for the target token, and the number of
\* negative updates applied is K minus the number of draws that hit the
\* target minus the number of slots that a saturated dot product ended
\* before any update.
C7_HitSkipsSlotUnlessSaturated ==
    Invoked =>
        /\ DrawsWithoutReplacement
        /\ Cardinality(AppliedSlots) =
              call.negative - Cardinality(HitSlots)
                            - Cardinality(SaturatedSlots)

C7_Witness ==
    /\ Invoked
    /\ HitSlots # {}
    /\ AppliedSlots # {}

\* the fields of a log entry that did what the rule for saturation asks of
\* them: a saturated field neither accumulates work nor updates the output
\* row, any other field does both
FieldsAsRuled(e) ==
    { fld \in ActiveFields(call) :
        IF fld \in e.sat
        THEN fld \notin e.p1 \cup e.p2
        ELSE fld \in e.p1 \cap e.p2 }

\* C8: with both fields active, when one field's dot product for sample d
\* is saturated only that (field, d) pair is skipped: the saturated field
\* adds nothing to its work slice and nothing to the output row, the other
\* field is still scored and applies its work accumulation and its
\* output-row update.
C8_SaturationSkipsOnePair ==
    (Invoked /\ call.use_sub # 0 /\ call.use_head # 0) =>
        \A n \in DOMAIN LastLog :
            (~LastLog[n].hit /\ Cardinality(LastLog[n].sat) = 1) =>
                FieldsAsRuled(LastLog[n]) = ActiveFields(call)

\* the sub-units a token owns
UnitsOf(tok) ==
    IF tok = 0 THEN {} ELSE { LookUp[n] : n \in EndIdx[tok - 1]..(EndIdx[tok] - 1) }

RowChanged(now, before, row) ==
    \E e \in 0..(VectorSize - 1) :
        now[row * VectorSize + e] # before[row * VectorSize + e]

\* C9: a call leaves every row it does not touch unchanged: a head row or
\* a sub-unit row changes only if its token, or a token owning the
\* sub-unit, stood at a context position of some invocation; a row of
\* syn1neg changes only if it is the target or a drawn negative of some
\* invocation.
C9_UntouchedRowsUnchanged ==
    /\ \A tok \in 0..(VocabSize - 1) :
          RowChanged(mdl.mats.head, gh.mats0.head, tok) => tok \in gh.ctxTokens
    /\ \A u \in 0..(SubUnits - 1) :
          RowChanged(mdl.mats.sub, gh.mats0.sub, u) =>
              \E tok \in gh.ctxTokens : u \in UnitsOf(tok)
    /\ \A row \in 0..(VocabSize - 1) :
          RowChanged(mdl.mats.neg, gh.mats0.neg, row) => row \in gh.outRows

\* the sentence boundaries the packing loop has recorded so far
Recorded == 0..(drv.effective_sentences - 1)

\* the number of packed tokens that come from the input sentences up to
\* and including sentence s
KeptUpTo(s) ==
    Cardinality({ n \in DOMAIN gh.packedFrom :
                    gh.packedFrom[n] < call.sentence_idx[s] })

\* C10: in subsampling mode the recorded sentence boundaries are cumulative
\* counts of surviving tokens: they are non-decreasing, the boundary of a
\* sentence is the number of tokens kept from all sentences up to and
\* including it, the last boundary is the returned effective-token count,
\* the packed tokens appear in input order and every packed token has
\* index > 3.
C10_PackedBoundaries ==
    call.subsampling # 0 =>
        /\ \A s, t \in Recorded :
              s <= t => c.sentence_idx[s] <= c.sentence_idx[t]
        /\ \A s \in Recorded : c.sentence_idx[s] = KeptUpTo(s)
        /\ (drv.pc = "done" /\ Recorded # {}) =>
              c.sentence_idx[drv.effective_sentences - 1] = drv.ret
        /\ drv.pc = "done" => drv.ret = Len(gh.packedFrom)
        /\ \A n \in DOMAIN gh.packedFrom :
              /\ c.indexes[n - 1] = call.indexes[gh.packedFrom[n]]
              /\ c.indexes[n - 1] \notin Reserved
              /\ \A o \in DOMAIN gh.packedFrom :
                    n < o => gh.packedFrom[n] < gh.packedFrom[o]

C10_Witness ==
    /\ call.subsampling # 0
    /\ drv.pc = "done"
    /\ drv.effective_sentences = 2
    /\ c.sentence_idx[0] < c.sentence_idx[1]
    /\ 0 < c.sentence_idx[0]
    /\ drv.ret < ArrayLen(call.indexes)

(***************************************************************************)
(* Properties of the scatter, over the last invocation: gh.last holds its  *)
(* arguments i, j, k, the matrices it started from (mats0), its projection *)
(* (neu1) and its scaled work buffer (work).                               *)
(***************************************************************************)
\* the positions of the window [j, k) of the last invocation but its target
WindowButTarget ==
    { m \in (gh.last.j)..(gh.last.k - 1) : m # gh.last.i }

\* the head row of token tok after every position of S holding tok has
\* received lock_scale[tok] * work_head_slice
HeadRowAfter(tok, e, S) ==
    LET hits == { m \in S : c.indexes[m] = tok }
    IN  gh.last.mats0.head[tok * call.size + e] +
        Cardinality(hits) *
            Mul(word_locks[tok], gh.last.work[HeadFld(call) * call.size + e])

\* the head projection aggregated from the rows of the positions of S
HeadProjectionOf(e, S) ==
    Mul(InvCount(gh.last.i, gh.last.j, gh.last.k),
        SumSet([m \in S |-> gh.last.mats0.head[c.indexes[m] * call.size + e]], S))

\* C11: for a per-token update with window [j, k) and target position i,
\* the head-field scatter adds lock_scale[token] * work_head_slice to the
\* input row of the token at position m for exactly the positions m in
\* [j, k) with m # i, the positions whose rows were aggregated into the
\* head projection, and never for the target position i, in both kernel
\* variants, with or without the sub field.
C11_HeadScatterSkipsTarget ==
    (Invoked /\ call.use_head # 0) =>
        /\ \A e \in 0..(call.size - 1) :
              gh.last.neu1[HeadFld(call) * call.size + e] =
                  HeadProjectionOf(e, WindowButTarget)
        /\ \A tok \in 0..(VocabSize - 1), e \in 0..(call.size - 1) :
              mdl.mats.head[tok * call.size + e] =
                  HeadRowAfter(tok, e, WindowButTarget)

(***************************************************************************)
(* Properties of the two phases of an iteration of the d loop, over the    *)
(* log of the last invocation.                                             *)
(***************************************************************************)
\* the iterations of the last invocation that scored every active field
\* and changed the output row
FullIterations ==
    { n \in DOMAIN LastLog :
        /\ LastLog[n].p1 = ActiveFields(call)
        /\ LastLog[n].p2 = ActiveFields(call)
        /\ LastLog[n].row1 # LastLog[n].row0 }

\* C12: within a single sample d of a per-token update the two phases do
\* not interleave: the dot product and the work accumulation of every
\* active field read the output row of the target as it was before any
\* field's phase 2 write to that row in this d, and the projection buffer
\* neu1 is not modified between its aggregation and the end of the d loop.
C12_PhasesDoNotInterleave ==
    Invoked =>
        \A n \in DOMAIN LastLog :
            /\ \A seen \in LastLog[n].read : seen[2] = LastLog[n].row0
            /\ LastLog[n].neu1 = gh.last.neu1

C12_Witness ==
    /\ Invoked
    /\ Cardinality(ActiveFields(call)) = 2
    /\ \E n \in FullIterations :
          /\ LastLog[n].d # 0
          /\ Cardinality(LastLog[n].read) = 2

(***************************************************************************)
(* Properties of the training loops.                                       *)
(***************************************************************************)
\* a step that computes the window of target drv.i (lines 426-431)
WindowComputed ==
    /\ drv.pc = "target"
    /\ drv.i < drv.idx_end
    /\ drv'.pc \in {"target", "sgloop"}
    /\ drv' # drv

\* C13: for every sentence [idx_start, idx_end) of the packed batch, every
\* position i in it and every shrink offset shrink[i] in [0, radius) with
\* radius >= 1, the driver computes j = max(idx_start, i - radius +
\* shrink[i]) and k = min(idx_end, i + radius + 1 - shrink[i]), so that
\* idx_start <= j <= i < k <= idx_end: a context window never contains a
\* position of another sentence.
C13_WindowInsideSentence ==
    [][WindowComputed =>
          LET i == drv.i
              lo == i - call.window + c.reduced_windows[i]
              hi == i + call.window + 1 - c.reduced_windows[i]
          IN  /\ call.window >= 1
              /\ c.reduced_windows[i] \in 0..(call.window - 1)
              /\ drv'.j = IF lo < drv.idx_start THEN drv.idx_start ELSE lo
              /\ drv'.k = IF hi > drv.idx_end THEN drv.idx_end ELSE hi
              /\ drv.idx_start <= drv'.j /\ drv'.j <= i
              /\ i < drv'.k /\ drv'.k <= drv.idx_end
              /\ call.sg # 1 => (gh'.last.j = drv'.j /\ gh'.last.k = drv'.k)
      ]_vars

\* a window of a second sentence that both clamps have cut
C13_Witness ==
    /\ call.sg # 1
    /\ drv.pc = "target"
    /\ Invoked
    /\ gh.last.i = drv.i - 1
    /\ drv.idx_start > 0
    /\ drv.j = drv.idx_start
    /\ gh.last.i - call.window + c.reduced_windows[gh.last.i] < drv.idx_start
    /\ drv.k = drv.idx_end
    /\ gh.last.i + call.window + 1 - c.reduced_windows[gh.last.i] > drv.idx_end

\* the packed sentences and the sentence a position belongs to
PackedSentences == 0..(drv.effective_sentences - 1)

SentenceStart(s) == IF s = 0 THEN 0 ELSE c.sentence_idx[s - 1]

SentenceOf(i) ==
    CHOOSE s \in PackedSentences : SentenceStart(s) <= i /\ i < c.sentence_idx[s]

\* the positions that are targets: those inside a packed sentence
Targets ==
    { i \in 0..(drv.effective_words - 1) :
        \E s \in PackedSentences : SentenceStart(s) <= i /\ i < c.sentence_idx[s] }

\* the window of target i
WindowOf(i) ==
    (Max(SentenceStart(SentenceOf(i)), i - call.window + c.reduced_windows[i]))
    ..(Min(c.sentence_idx[SentenceOf(i)], i + call.window + 1 - c.reduced_windows[i]) - 1)

\* the arguments <<i, j, k>> of the invocations a call is to make
ExpectedCalls ==
    IF call.sg = 1
    THEN UNION { { <<i, pos, pos + 1>> : pos \in WindowOf(i) \ {i} } : i \in Targets }
    ELSE { <<i, CHOOSE j \in WindowOf(i) : \A m \in WindowOf(i) : j <= m,
                (CHOOSE k \in WindowOf(i) : \A m \in WindowOf(i) : k >= m) + 1>>
           : i \in Targets }

\* invocation p comes before invocation q in sentence order, position
\* order, window order
ComesBefore(p, q) == p.i < q.i \/ (p.i = q.i /\ p.j < q.j)

\* C14: in skip-gram mode the driver invokes the per-token update for
\* target i exactly once per context position pos in [j, k) with pos # i,
\* in increasing order of pos, each time with the window [pos, pos + 1);
\* in CBOW-style mode it invokes the update exactly once per target
\* position i with the full window [j, k); targets are processed in
\* sentence order and then position order, and the generator state
\* returned by one invocation is the state passed to the next.
C14_InvocationOrder ==
    /\ \A n \in DOMAIN gh.calls :
          <<gh.calls[n].i, gh.calls[n].j, gh.calls[n].k>> \in ExpectedCalls
    /\ \A n \in 1..(Len(gh.calls) - 1) :
          /\ ComesBefore(gh.calls[n], gh.calls[n + 1])
          /\ gh.calls[n + 1].before = gh.calls[n].after
    /\ Invoked => c.next_random = gh.calls[Len(gh.calls)].after
    /\ drv.pc = "done" => Len(gh.calls) = Cardinality(ExpectedCalls)

\* a finished skip-gram call in which a target had a context position on
\* either side
C14_Witness ==
    /\ call.sg = 1
    /\ drv.pc = "done"
    /\ Len(gh.calls) = Cardinality(ExpectedCalls)
    /\ \E n \in 1..(Len(gh.calls) - 1) :
          /\ gh.calls[n].i = gh.calls[n + 1].i
          /\ gh.calls[n].j < gh.calls[n].i
          /\ gh.calls[n].i < gh.calls[n + 1].j

(***************************************************************************)
(* Properties of the field segments.  A field is named by the matrix it    *)
(* owns: "sub" and "sub1" for the sub fields, "head" for the head field.   *)
(***************************************************************************)
SubFieldName(n) == IF n = 0 THEN "sub" ELSE "sub1"

\* the segment index each stage of the pipeline uses for each field, as
\* the fld_idx arithmetic of that stage yields it
StageSlots(cfg) ==
    LET head(stage, slot) ==
            IF cfg.use_head # 0
            THEN {[stage |-> stage, field |-> "head", slot |-> slot]}
            ELSE {}
        subs(stage, count) ==
            {[stage |-> stage, field |-> SubFieldName(n), slot |-> n]
                : n \in 0..(count - 1)}
        first == IF cfg.use_sub # 0 THEN 1 ELSE 0
        bound == IF cfg.variant = "neat" THEN first ELSE cfg.use_sub
    IN  \* init_w2v_config: lines 116-127, 485-499
        subs("config", bound) \cup head("config", bound)
        \* aggregation: lines 219-252, 599-641
        \cup subs("aggregate", first) \cup head("aggregate", HeadFld(cfg))
        \* scoring: lines 272-309, 664-700
        \cup subs("score", bound) \cup head("score", ScoreHeadFld(cfg))
        \* output-row update: lines 314-320, 704-710
        \cup subs("update", first) \cup head("update", HeadFld(cfg))
        \* inv_count scaling: lines 325-332, 716-723
        \cup subs("scale", first) \cup head("scale", HeadFld(cfg))
        \* scatter: lines 337-359, 726-753
        \cup subs("scatter", first) \cup head("scatter", HeadFld(cfg))

Stages == {"config", "aggregate", "score", "update", "scale", "scatter"}

\* the fields the configuration of the call binds
ConfiguredFields(cfg) ==
    { u.field : u \in { v \in StageSlots(cfg) : v.stage = "config" } }

\* C15: each active field owns one segment of the neu1 and work buffers,
\* in the fixed order sub field(s) first and head field last, and the
\* segment index and embedding-matrix handle used for a field are the same
\* in every stage of the pipeline (config construction, projection
\* aggregation, scoring, output-row update, inv_count scaling and
\* scatter), for any number of configured sub fields; the segments of two
\* distinct fields never overlap.
C15_OneSegmentPerField ==
    Invoked =>
        LET plan == StageSlots(call)
        IN  /\ \A f \in ConfiguredFields(call), stage \in Stages :
                  \E u \in plan : u.field = f /\ u.stage = stage
            /\ \A u, v \in plan :
                  /\ u.field = v.field => u.slot = v.slot
                  /\ u.field # v.field => u.slot # v.slot
                  /\ (u.field # "head" /\ v.field = "head") => u.slot < v.slot
            /\ \A u \in plan :
                  /\ SlotHandle(call, u.slot) = u.field
                  /\ u.slot \in 0..(ProjNum(call) - 1)

(***************************************************************************)
(* Properties of the sub field's tables.                                   *)
(***************************************************************************)
\* token t >= 1 has an empty sub-unit slice
EmptySlice(t) == t >= 1 /\ EndIdx[t] = EndIdx[t - 1]

\* the (position, sub-unit slot) pairs of the positions of S whose token
\* has sub-units
OwnedPairs(S) ==
    { q \in S \X (0..(EndIdx[VocabSize - 1] - 1)) :
        /\ c.indexes[q[1]] >= 1
        /\ ~EmptySlice(c.indexes[q[1]])
        /\ EndIdx[c.indexes[q[1]] - 1] <= q[2]
        /\ q[2] < EndIdx[c.indexes[q[1]]] }

\* the sub projection and the sub-unit matrix of the last invocation when
\* only the tokens with sub-units take part
SubProjectionOf(e, S) ==
    Mul(InvCount(gh.last.i, gh.last.j, gh.last.k),
        SumSet([q \in OwnedPairs(S) |->
                   Mul(LengInv[c.indexes[q[1]]],
                       gh.last.mats0.sub[LookUp[q[2]] * call.size + e])],
               OwnedPairs(S)))

SubRowAfter(u, e, S) ==
    LET hits == { q \in OwnedPairs(S) : LookUp[q[2]] = u }
    IN  gh.last.mats0.sub[u * call.size + e] +
        SumSet([q \in hits |-> Mul(LengInv[c.indexes[q[1]]], gh.last.work[e])],
               hits)

\* C16: in sub-field aggregation and sub-field scatter, a context token t
\* whose sub-unit slice is empty (EndIdx[t] = EndIdx[t-1]) contributes
\* exactly zero to the sub-field projection and receives no scatter write
\* to any sub-unit row, whatever value LengInv[t] holds: projection and
\* sub-unit rows are what the tokens with sub-units alone yield.
C16_EmptySliceContributesNothing ==
    (Invoked /\ call.use_sub # 0) =>
        /\ \A e \in 0..(call.size - 1) :
              gh.last.neu1[e] = SubProjectionOf(e, WindowButTarget)
        /\ \A u \in 0..(SubUnits - 1), e \in 0..(call.size - 1) :
              mdl.mats.sub[u * call.size + e] = SubRowAfter(u, e, gh.last.scat)

\* an invocation whose context holds a token without sub-units and with a
\* nonzero LengInv next to a token with sub-units, and that wrote the
\* sub-unit matrix
C16_Witness ==
    /\ Invoked
    /\ call.use_sub # 0
    /\ \E m \in WindowButTarget \cap gh.last.scat :
          EmptySlice(c.indexes[m]) /\ LengInv[c.indexes[m]] # 0
    /\ \E m \in WindowButTarget \cap gh.last.scat : ~EmptySlice(c.indexes[m])
    /\ \E e \in 0..(call.size - 1) : gh.last.neu1[e] # 0
    /\ mdl.mats.sub # gh.last.mats0.sub

(***************************************************************************)
(* Properties of the loss bookkeeping.                                     *)
(***************************************************************************)
\* the last invocation run again from the same matrices, window and
\* generator state with _compute_loss = flag and a running loss of 0
Rerun(flag, junk) ==
    TokenUpdate([call EXCEPT !.compute_loss = flag], c.indexes,
                gh.last.i, gh.last.j, gh.last.k, gh.last.mats0,
                gh.last.before, 0, junk)

\* what an iteration did to the matrices: the fields scored and updated
Footprint(log) ==
    [n \in DOMAIN log |-> <<log[n].target, log[n].p1, log[n].p2>>]

\* C17: the loss-tracking flag does not influence the embedding updates:
\* two per-token updates started from the same matrices, window, generator
\* state and learning rate, one with compute_loss = 1 and one with
\* compute_loss = 0, end with identical embedding matrices and generator
\* state after scoring the same (field, d) pairs, and differ only in the
\* running loss, which stays unchanged when compute_loss = 0.
C17_LossFlagNoInfluence ==
    Invoked =>
        \A g \in JunkG, e \in JunkEndIdx :
            With(Rerun(1, [g |-> g, endidx |-> e]), LAMBDA on :
            With(Rerun(0, [g |-> g, endidx |-> e]), LAMBDA off :
                /\ on.mats = off.mats
                /\ on.next_random = off.next_random
                /\ Footprint(on.log) = Footprint(off.log)
                /\ off.loss = 0))

\* the indices of the sub field's per-token tables
TableIndices == 0..(VocabSize - 1)

\* C18: with the sub field active, every read of the EndIdx and LengInv
\* tables made by a per-token update uses a token index inside
\* [0, vocabulary size): for every token value t that a call places at a
\* context position, in subsampling mode and in no-subsampling mode, both
\* EndIdx[t-1] and EndIdx[t] are in-bounds reads.
C18_TableReadsInBounds ==
    call.use_sub # 0 =>
        /\ \A t \in gh.tableTokens :
              t \in TableIndices /\ t - 1 \in TableIndices
        /\ ~gh.oobRead

\* every call has returned
AllReturned == \A t \in Workers : drv[t].pc = "done"

\* C19: when several worker threads run train_batch concurrently on the
\* same model with loss tracking enabled, each with its own working
\* buffers and generator state, the model's running training loss after
\* all calls have completed equals its initial value plus the sum of the
\* loss contributions accumulated by every call.
C19_NoLossContributionLost ==
    AllReturned =>
        mdl.running_training_loss = gh.initial + gh.contributed

(***************************************************************************)
(* Properties of the negative draw, checked under SpecDraw.                *)
(***************************************************************************)
\* line 264 as one expression
DrawFrom(a, n, state) == bisect_left(a, Shift16Mod(state, a[n - 1]), 0, n)

\* C20: for every generator state and every non-decreasing cumulative
\* table of length N >= 1 whose last element is positive, the negative
\* index drawn in the per-token update, bisect_left(cum_table, (state >>
\* 16) % cum_table[N-1], 0, N), is a valid vocabulary index in [0, N-1], so
\* the output row read and written for a negative sample is inside the
\* syn1neg matrix.
C20_DrawnIndexValid ==
    /\ bis.pc \in {"loop", "done"} =>
          /\ bis.x \in 0..(bis.a[bis.n - 1] - 1)
          /\ 0 <= bis.lo /\ bis.lo <= bis.hi /\ bis.hi <= bis.n
    /\ bis.pc = "done" =>
          /\ bis.lo \in 0..(bis.n - 1)
          /\ \A e \in 0..(VectorSize - 1) :
                bis.lo * VectorSize + e \in 0..(bis.n * VectorSize - 1)
          /\ bis.lo = DrawFrom(bis.a, bis.n, rng.state)

\* a draw, after the generator has advanced, that returned the last index
\* of a table with an empty bucket
C20_Witness ==
    /\ bis.pc = "done"
    /\ rng.n >= 1
    /\ bis.n >= 2
    /\ bis.lo = bis.n - 1
    /\ \E p \in 0..(bis.n - 2) : bis.a[p] = bis.a[p + 1]

==========================================================================
